---- MODULE Spec2Model ----
(***************************************************************************)
(* The weather cache of src/weather.py (class Weather): the three MongoDB  *)
(* collections current / forecasts / time_machine, the request handlers    *)
(* current and hourly, the private __get_data they share, and the DarkSky  *)
(* call.  Time is counted in ticks of 0.1 s since an arbitrary epoch, so   *)
(* that 345.6 s (the CURRENT time-to-live) is a whole number of ticks.     *)
(***************************************************************************)
EXTENDS Integers, Sequences, FiniteSets, TLC

VARIABLES
    clock,            \* the local clock behind Weather.now(): UTC instant, in ticks
    ticks,            \* how many times the clock has been advanced (bounds the run)
    db_current,       \* collection weather.current: a sequence of documents
    db_forecasts,     \* collection weather.forecasts
    db_time_machine,  \* collection weather.time_machine
    fetches,          \* history: per (regime, key), HTTP calls made and answered 200
    fetched_at,       \* history: the clock at the fetch that wrote the current record
    last,             \* the request just served: its input, what it did, what it returned
    environ,          \* os.environ: the variables that are set
    client,           \* the MongoClient of the Weather object, once it is constructed
    inflight,         \* per caller, the request it is in the middle of
    burner            \* the Burner object of src/GrillBot.py and its last operation

vars == <<clock, ticks, db_current, db_forecasts, db_time_machine,
          fetches, fetched_at, last, environ, client, inflight, burner>>

\* what a request of the sequential callers leaves alone
setup == <<environ, client, inflight, burner>>

stores == <<db_current, db_forecasts, db_time_machine>>

----------------------------------------------------------------------------
(* Units and program constants *)

\* timedelta(seconds=...) counts seconds; the model's clock has 10 ticks a second
Second == 10
Hour == 60 * 60 * Second
\* 24.*60.*60. seconds
Day == 24 * Hour

max_requests_per_day_current == 250
max_requests_per_day_forecast == 100

\* timedelta(seconds=24.*60.*60./max_requests_per_day)
ttl(max_requests_per_day) == Day \div max_requests_per_day

\* The HTTP status that __darksky accepts
StatusOK == 200

\* A status the API answers when it refuses a request
TooManyRequests == 429

\* No status at all: requests.get raised (connection refused, reset, timed out)
NoResponse == 0

----------------------------------------------------------------------------
(* Bounds of the model *)

MaxTicks == 3      \* clock advances in one run
MaxHttp == 2       \* HTTP calls in one run
MaxPayload == 2    \* distinct contents the API answers with
MaxHours == 2      \* length of an hourly list handed to the aggregation alone

\* The process's zone, get_localzone(): UTC-05:00
get_localzone == 0 - 5 * Hour

\* The run starts on day 2 at 08:00 local time (13:00 UTC)
StartClock == 2 * Day + 13 * Hour

StartDay == (StartClock + get_localzone) \div Day

\* The calendar days a caller asks for: yesterday, today, tomorrow at the start
Dates == {StartDay - 1, StartDay, StartDay + 1}

\* How far the clock may advance in one step
TickSteps == {1, ttl(max_requests_per_day_current) - 1,
              ttl(max_requests_per_day_forecast) - 1}

----------------------------------------------------------------------------
(* Python values *)

\* None, and the absence of a document
None == [type |-> "None"]

\* a datetime.date
Date(d) == [type |-> "date", day |-> d, tod |-> 0, off |-> 0, aware |-> FALSE]

\* a datetime.datetime: wall-clock day and time of day, and its tzinfo if aware
DateTime(d, t, o, a) == [type |-> "datetime", day |-> d, tod |-> t, off |-> o, aware |-> a]

\* any other type (a float timestamp, a string)
Other == [type |-> "other"]

\* datetime.date(): the wall-clock day the object carries
date_of(dt) == dt.day

\* the instant an aware datetime denotes
Instant(dt) == dt.day * Day + dt.tod - dt.off

\* Weather.now(): the clock as an aware datetime in the local zone
now == DateTime((clock + get_localzone) \div Day, (clock + get_localzone) % Day,
                get_localzone, TRUE)

\* Weather.date_to_datetime: midnight of the date, read as local time
date_to_datetime(d) == DateTime(d.day, 0, get_localzone, TRUE)

\* time.strftime('%d-%m-%Y'): one string per calendar day; the day number stands for it
strftime(dt) == dt.day

\* an exception leaving the handler
Raise(kind, status) == [type |-> "error", kind |-> kind, status |-> status]

\* a value returned by the handler
Return(value) == [type |-> "ok", value |-> value]

----------------------------------------------------------------------------
(* The DarkSky API *)

HourKeys == {"time", "temperature", "humidity"}

\* The API answers with one of the documents 1..MaxPayload.  Document 1 carries
\* the optional top-level block alerts and two hourly entries with different
\* fields; document 2 has no alerts and an hourly entry without time; any
\* further document has no alerts and an empty hourly array.
HourlyOf(v) ==
    CASE v = 1 -> << [time |-> 1, temperature |-> 1],
                     [time |-> 2, temperature |-> 2, humidity |-> 3] >>
      [] v = 2 -> << [temperature |-> 2] >>
      [] OTHER -> << >>

HasAlerts(v) == v = 1

\* What the API may answer: a status and, for a 200, the document v and how far
\* the API's currently.time (whole UNIX seconds) lags the local clock.
Answer(status, v, lag) == [status |-> status, v |-> v, lag |-> lag]

InSync == {0}
Lags == {0, ttl(max_requests_per_day_current)}

Answers(lags) ==
    {Answer(StatusOK, v, l) : v \in 1..MaxPayload, l \in lags}
    \cup {Answer(TooManyRequests, 1, 0)}

\* The zone the API names for the coordinates: UTC-06:00, not the process's
ApiZone == 0 - 6 * Hour

\* resp.json(): the parsed document of a 200 answer
Body(api) ==
    LET base == [currently |-> [time |-> (clock - api.lag) \div Second,
                                temperature |-> api.v],
                 timezone |-> ApiZone,
                 hourly |-> [data |-> HourlyOf(api.v)]]
    IN IF HasAlerts(api.v)
       THEN [k \in DOMAIN base \cup {"alerts"} |->
                IF k = "alerts" THEN api.v ELSE base[k]]
       ELSE base

\* (a call that parses whatever comes back, whatever the status)
darksky_unchecked(api) == Return(Body(api))

\* (a call that is sent a second time when the first one failed)
requests_get_retry(api) == IF api.status # StatusOK THEN <<api, api>> ELSE <<api>>

\* requests.get(request_url): the HTTP exchanges one call of __darksky makes
requests_get(api) == <<api>>

\* Weather.__darksky: one GET; an exception of requests.get goes up as it is,
\* a status other than 200 raises RuntimeError
darksky(api) ==
    IF api.status = NoResponse
    THEN Raise("ConnectionError", NoResponse)
    ELSE IF api.status # StatusOK
    THEN Raise("RuntimeError", api.status)
    ELSE Return(Body(api))

----------------------------------------------------------------------------
(* The MongoDB collections *)

\* {'$set': fields}: the named top-level fields are set, the others are kept
Set(doc, fields) ==
    [k \in DOMAIN doc \cup DOMAIN fields |->
        IF k \in DOMAIN fields THEN fields[k] ELSE doc[k]]

\* A filter is given by the positions of the documents it matches.
First(matching) == CHOOSE i \in matching : \A j \in matching : i <= j

\* collection.find_one(filter): the first matching document, or None
find_one(coll, matching) ==
    IF matching = {} THEN None ELSE coll[First(matching)]

\* (an update that never looks for a document to update)
update_one_insert(coll, matching, fields) == Append(coll, fields)

\* collection.update_one(filter, {'$set': fields}, upsert=True)
update_one_upsert(coll, matching, fields) ==
    IF matching = {}
    THEN Append(coll, fields)
    ELSE [coll EXCEPT ![First(matching)] = Set(@, fields)]

\* collection.insert_one(doc)
insert_one(coll, doc) == Append(coll, doc)

\* (a filter that also matches a document exactly at the threshold)
time_gte(doc, threshold_time) == doc.time >= threshold_time

\* {'time': {'$gt': threshold_time}}
time_gt(doc, threshold_time) == doc.time > threshold_time

----------------------------------------------------------------------------
(* Weather.__get_data *)

Some(x) == <<x>>
Nothing == << >>

\* What one call of __get_data does: the branch taken and its date key, the age of
\* the record stored under that key when the call began (Nothing if there was
\* none), the HTTP call made (Nothing, or the API's answer), the three
\* collections afterwards, and what the call returns or raises.  The HTTP calls
\* are the sequence of exchanges made, each with the API's answer.
Outcome(regime, key, age, call, cur, fc, tm, result) ==
    [regime |-> regime, key |-> key, age |-> age, call |-> call,
     cur |-> cur, fc |-> fc, tm |-> tm, result |-> result]

\* the record's age, as the $gt filter measures it
AgeOf(doc) == IF doc = None THEN Nothing ELSE Some(clock - doc.time)

\* The input checks at the top of __get_data: the time argument the branches
\* see, or the ValueError raised.
check_time(time) ==
    CASE time.type = "datetime" ->
            IF ~time.aware THEN Raise("ValueError", 0) ELSE Return(time)
      [] time.type = "date" -> Return(date_to_datetime(time))
      [] time.type = "None" -> Return(time)
      [] OTHER -> Raise("ValueError", 0)

\* {'time': {'$gt': now - ttl}}: is the document still fresh
is_fresh(doc, max_requests_per_day) ==
    time_gt(doc, clock - ttl(max_requests_per_day))

\* (the branch falling back on the stale record when the download fails)
get_current_fallback(api) ==
    LET all == 1..Len(db_current)
        fresh == {i \in all : is_fresh(db_current[i], max_requests_per_day_current)}
        found == find_one(db_current, fresh)
        stale == find_one(db_current, all)
        age == AgeOf(stale)
        resp == darksky(api)
        resp_dict == Set(resp.value, [time |-> resp.value.currently.time * Second])
    IN IF found # None
       THEN Outcome("CURRENT", 0, age, Nothing,
                    db_current, db_forecasts, db_time_machine, Return(found))
       ELSE IF resp.type = "error"
       THEN Outcome("CURRENT", 0, age, requests_get(api),
                    db_current, db_forecasts, db_time_machine,
                    IF stale # None THEN Return(stale) ELSE resp)
       ELSE Outcome("CURRENT", 0, age, requests_get(api),
                    update_one_upsert(db_current, all, resp_dict),
                    db_forecasts, db_time_machine, Return(resp_dict))

\* the branch `if time is None`
get_current(api) ==
    LET all == 1..Len(db_current)
        fresh == {i \in all : is_fresh(db_current[i], max_requests_per_day_current)}
        found == find_one(db_current, fresh)
        age == AgeOf(find_one(db_current, all))
        resp == darksky(api)
        resp_dict == Set(resp.value, [time |-> resp.value.currently.time * Second])
    IN IF found # None
       THEN Outcome("CURRENT", 0, age, Nothing,
                    db_current, db_forecasts, db_time_machine, Return(found))
       ELSE IF resp.type = "error"
       THEN Outcome("CURRENT", 0, age, requests_get(api),
                    db_current, db_forecasts, db_time_machine, resp)
       ELSE Outcome("CURRENT", 0, age, requests_get(api),
                    update_one_upsert(db_current, all, resp_dict),
                    db_forecasts, db_time_machine, Return(resp_dict))

\* (the branch writing with the empty filter of the CURRENT branch)
get_forecast_unkeyed(time, api) ==
    LET key == strftime(time)
        dated == {i \in 1..Len(db_forecasts) : db_forecasts[i].date = key}
        fresh == {i \in dated : is_fresh(db_forecasts[i], max_requests_per_day_forecast)}
        found == find_one(db_forecasts, fresh)
        age == AgeOf(find_one(db_forecasts, dated))
        resp == darksky(api)
        resp_dict == Set(resp.value, [time |-> clock, date |-> key])
    IN IF found # None
       THEN Outcome("FORECAST", key, age, Nothing,
                    db_current, db_forecasts, db_time_machine, Return(found))
       ELSE IF resp.type = "error"
       THEN Outcome("FORECAST", key, age, requests_get(api),
                    db_current, db_forecasts, db_time_machine, resp)
       ELSE Outcome("FORECAST", key, age, requests_get(api), db_current,
                    update_one_upsert(db_forecasts, 1..Len(db_forecasts), resp_dict),
                    db_time_machine, Return(resp_dict))

\* (the branch stamping the record with the time of every hit)
get_forecast_touch(time, api) ==
    LET key == strftime(time)
        dated == {i \in 1..Len(db_forecasts) : db_forecasts[i].date = key}
        fresh == {i \in dated : is_fresh(db_forecasts[i], max_requests_per_day_forecast)}
        found == find_one(db_forecasts, fresh)
        age == AgeOf(find_one(db_forecasts, dated))
        resp == darksky(api)
        resp_dict == Set(resp.value, [time |-> clock, date |-> key])
    IN IF found # None
       THEN Outcome("FORECAST", key, age, Nothing, db_current,
                    update_one_upsert(db_forecasts, fresh, [time |-> clock]),
                    db_time_machine, Return(found))
       ELSE IF resp.type = "error"
       THEN Outcome("FORECAST", key, age, requests_get(api),
                    db_current, db_forecasts, db_time_machine, resp)
       ELSE Outcome("FORECAST", key, age, requests_get(api), db_current,
                    update_one_upsert(db_forecasts, dated, resp_dict),
                    db_time_machine, Return(resp_dict))

\* the branch `elif time.date() >= self.now().date()`
get_forecast(time, api) ==
    LET key == strftime(time)
        dated == {i \in 1..Len(db_forecasts) : db_forecasts[i].date = key}
        fresh == {i \in dated : is_fresh(db_forecasts[i], max_requests_per_day_forecast)}
        found == find_one(db_forecasts, fresh)
        age == AgeOf(find_one(db_forecasts, dated))
        resp == darksky(api)
        resp_dict == Set(resp.value, [time |-> clock, date |-> key])
    IN IF found # None
       THEN Outcome("FORECAST", key, age, Nothing,
                    db_current, db_forecasts, db_time_machine, Return(found))
       ELSE IF resp.type = "error"
       THEN Outcome("FORECAST", key, age, requests_get(api),
                    db_current, db_forecasts, db_time_machine, resp)
       ELSE Outcome("FORECAST", key, age, requests_get(api), db_current,
                    update_one_upsert(db_forecasts, dated, resp_dict),
                    db_time_machine, Return(resp_dict))

\* (the branch without its lookup: it downloads and inserts every time)
get_time_machine_again(time, api) ==
    LET key == strftime(time)
        dated == {i \in 1..Len(db_time_machine) : db_time_machine[i].date = key}
        age == AgeOf(find_one(db_time_machine, dated))
        resp == darksky(api)
        resp_dict == Set(resp.value, [time |-> clock, date |-> key])
    IN IF resp.type = "error"
       THEN Outcome("HISTORICAL", key, age, requests_get(api),
                    db_current, db_forecasts, db_time_machine, resp)
       ELSE Outcome("HISTORICAL", key, age, requests_get(api), db_current, db_forecasts,
                    insert_one(db_time_machine, resp_dict), Return(resp_dict))

\* (the branch treating its records as the forecasts are: refreshed when stale)
get_time_machine_expiring(time, api) ==
    LET key == strftime(time)
        dated == {i \in 1..Len(db_time_machine) : db_time_machine[i].date = key}
        fresh == {i \in dated : is_fresh(db_time_machine[i], max_requests_per_day_forecast)}
        found == find_one(db_time_machine, fresh)
        age == AgeOf(find_one(db_time_machine, dated))
        resp == darksky(api)
        resp_dict == Set(resp.value, [time |-> clock, date |-> key])
    IN IF found # None
       THEN Outcome("HISTORICAL", key, age, Nothing,
                    db_current, db_forecasts, db_time_machine, Return(found))
       ELSE IF resp.type = "error"
       THEN Outcome("HISTORICAL", key, age, requests_get(api),
                    db_current, db_forecasts, db_time_machine, resp)
       ELSE Outcome("HISTORICAL", key, age, requests_get(api), db_current, db_forecasts,
                    update_one_upsert(db_time_machine, dated, resp_dict), Return(resp_dict))

\* (the branch taking the date's forecast record, if there is one, for its own)
get_time_machine_from_forecast(time, api) ==
    LET key == strftime(time)
        dated == {i \in 1..Len(db_time_machine) : db_time_machine[i].date = key}
        forecast == {i \in 1..Len(db_forecasts) : db_forecasts[i].date = key}
        found == IF forecast # {} THEN find_one(db_forecasts, forecast)
                 ELSE find_one(db_time_machine, dated)
        age == AgeOf(found)
        resp == darksky(api)
        resp_dict == Set(resp.value, [time |-> clock, date |-> key])
    IN IF found # None
       THEN Outcome("HISTORICAL", key, age, Nothing,
                    db_current, db_forecasts, db_time_machine, Return(found))
       ELSE IF resp.type = "error"
       THEN Outcome("HISTORICAL", key, age, requests_get(api),
                    db_current, db_forecasts, db_time_machine, resp)
       ELSE Outcome("HISTORICAL", key, age, requests_get(api), db_current, db_forecasts,
                    insert_one(db_time_machine, resp_dict), Return(resp_dict))

\* the branch `elif time.date() < self.now().date()`
get_time_machine(time, api) ==
    LET key == strftime(time)
        dated == {i \in 1..Len(db_time_machine) : db_time_machine[i].date = key}
        found == find_one(db_time_machine, dated)
        age == AgeOf(found)
        resp == darksky(api)
        resp_dict == Set(resp.value, [time |-> clock, date |-> key])
    IN IF found # None
       THEN Outcome("HISTORICAL", key, age, Nothing,
                    db_current, db_forecasts, db_time_machine, Return(found))
       ELSE IF resp.type = "error"
       THEN Outcome("HISTORICAL", key, age, requests_get(api),
                    db_current, db_forecasts, db_time_machine, resp)
       ELSE Outcome("HISTORICAL", key, age, requests_get(api), db_current, db_forecasts,
                    insert_one(db_time_machine, resp_dict), Return(resp_dict))

\* (the chain with today counted among the past days)
branch_today_past(time) ==
    CASE time = None -> "CURRENT"
      [] time # None /\ date_of(time) > date_of(now) -> "FORECAST"
      [] time # None /\ date_of(time) <= date_of(now) -> "HISTORICAL"
      [] OTHER -> "none"

\* The if / elif / elif chain of __get_data: the branch a checked time takes
branch(time) ==
    CASE time = None -> "CURRENT"
      [] time # None /\ date_of(time) >= date_of(now) -> "FORECAST"
      [] time # None /\ date_of(time) < date_of(now) -> "HISTORICAL"
      [] OTHER -> "none"

\* Weather.__get_data(time), the API answering `api` if it is asked
get_data(time, api) ==
    LET checked == check_time(time)
        t == checked.value
    IN IF checked.type = "error"
       THEN Outcome("none", 0, Nothing, Nothing,
                    db_current, db_forecasts, db_time_machine, checked)
       ELSE CASE branch(t) = "CURRENT" -> get_current(api)
              [] branch(t) = "FORECAST" -> get_forecast(t, api)
              [] branch(t) = "HISTORICAL" -> get_time_machine(t, api)
              [] OTHER -> Outcome("none", 0, Nothing, Nothing, db_current,
                                  db_forecasts, db_time_machine, Return(None))

----------------------------------------------------------------------------
(* Weather.hourly: the column-oriented table *)

\* datetime.fromtimestamp(time_value, tz): the instant, shown in the zone tz
fromtimestamp(time_value, tz) == [ts |-> time_value, tz |-> tz]

\* np.unique of the keys of all the hourly entries
unique_keys(forecast_data) ==
    UNION {DOMAIN forecast_data[i] : i \in 1..Len(forecast_data)}

\* data[key] += [data_entry[key]], or [None] on KeyError
column(forecast_data, key) ==
    [i \in 1..Len(forecast_data) |->
        IF key \in DOMAIN forecast_data[i] THEN Some(forecast_data[i][key]) ELSE Nothing]

\* The second half of Weather.hourly: the dictionary of columns, its time column
\* converted, as the DataFrame is built from it.
aggregate(forecast_data, tz) ==
    LET keys == unique_keys(forecast_data)
        data == [key \in keys |-> column(forecast_data, key)]
    IN IF "time" \notin keys
       THEN Raise("KeyError", 0)
       ELSE IF \E i \in 1..Len(forecast_data) : data["time"][i] = Nothing
       THEN Raise("TypeError", 0)
       ELSE Return([key \in keys |->
                      IF key = "time"
                      THEN [i \in 1..Len(forecast_data) |->
                              Some(fromtimestamp(data["time"][i][1], tz))]
                      ELSE data[key]])

\* The first lines of Weather.hourly: the date handed to __get_data
hourly_day(day) ==
    CASE day.type = "None" -> Return(Date(date_of(now)))
      [] day.type = "datetime" -> Return(Date(date_of(day)))
      [] OTHER -> Raise("AttributeError", 0)

----------------------------------------------------------------------------
(* Burner, src/GrillBot.py: the knob of one burner behind a stepper motor *)

\* A set point is counted in 1/1600 of the scale, an angle in 1/80 of a degree:
\* one motor step is then 81 angle units and 9 set point units, both whole.
One == 1600

\* the knob's off position, 1.5
Off == One + One \div 2

burner_sector_angle == 180 * 80

stepper_angle == 144

tooth_count_sec == 9
tooth_count_pri == 16

\* step == 'single': self.stepper_angle*self.gear_ratio
min_burner_increment == (stepper_angle * tooth_count_sec) \div tooth_count_pri

\* np.abs
abs(x) == IF x < 0 THEN 0 - x ELSE x

\* the argument every onestep call is given as its direction: the module stepper
onestep_direction == "stepper"

\* The limits on the input value: None and values above 1.0 become 1.5, values
\* below 0.0 become 0.0
limit(value) ==
    IF value = Nothing THEN Off
    ELSE IF value[1] > One THEN Off
    ELSE IF value[1] < 0 THEN 0
    ELSE value[1]

\* The setter from `num_steps = ...` on, self.value being the number `current`:
\* the steps made, the value recorded, the direction the onestep calls are given
move(current, value) ==
    LET num_steps == (abs(value - current) * burner_sector_angle)
                        \div (One * min_burner_increment)
        new_value == IF value > current
                     THEN current + (num_steps * min_burner_increment * One)
                                       \div burner_sector_angle
                     ELSE value
    IN [from |-> Some(current), target |-> value, steps |-> num_steps,
        direction |-> onestep_direction,
        value |-> IF new_value = Off THEN Nothing ELSE Some(new_value),
        ignited |-> FALSE, raised |-> Nothing]

\* Burner.ignite: the value is put at 1.5, the knob is moved to 1.0
ignite == move(Off, limit(Some(One)))

\* The setter of Burner.value, self.value being `current` (Nothing for None):
\* the ignition if the burner is off and a value is given, then the move; with
\* None still recorded, `value - self.value` raises TypeError.
set_value(current, value) ==
    LET ignited == current = Nothing /\ value # Nothing
        lit == IF ignited THEN ignite.value ELSE current
        moved == IF lit = Nothing
                 THEN [from |-> Nothing, target |-> limit(value), steps |-> 0,
                       direction |-> onestep_direction, value |-> lit,
                       ignited |-> FALSE, raised |-> Some("TypeError")]
                 ELSE move(lit[1], limit(value))
    IN [moved EXCEPT !.ignited = ignited]

\* no Burner object yet
NoBurner ==
    [state |-> "none", value |-> Nothing, registered |-> FALSE, assigns |-> 0,
     off |-> FALSE,
     last |-> [op |-> "none", arg |-> Nothing, was_off |-> FALSE, ignited |-> FALSE,
               from |-> Nothing, target |-> 0, steps |-> 0,
               direction |-> onestep_direction, raised |-> Nothing]]

\* what the object remembers of an operation that went through set_value
Operated(op, arg, done) ==
    [op |-> op, arg |-> arg, was_off |-> burner.off, ignited |-> done.ignited,
     from |-> done.from, target |-> done.target, steps |-> done.steps,
     direction |-> done.direction, raised |-> done.raised]

----------------------------------------------------------------------------
(* The state machine *)

NoFetches == [k \in {} |-> 0]

Count(key) == IF key \in DOMAIN fetches THEN fetches[key] ELSE [n |-> 0, ok |-> 0]

\* HTTP calls made so far in a regime, and in all
HttpIn(regime) ==
    LET keys == {k \in DOMAIN fetches : k[1] = regime}
        Sum[S \in SUBSET keys] ==
            IF S = {} THEN 0
            ELSE LET k == CHOOSE x \in S : TRUE IN fetches[k].n + Sum[S \ {k}]
    IN Sum[keys]

TotalHttp == HttpIn("CURRENT") + HttpIn("FORECAST") + HttpIn("HISTORICAL")

Idle == [entry |-> "idle", input |-> None, regime |-> "none", key |-> 0,
         age |-> Nothing, since |-> Nothing, call |-> Nothing, result |-> Return(None)]

\* The environment variables __init__ reads, in the order it reads them
Variables == {"DARKSKY_KEY", "LATITUDE", "LONGITUDE"}

\* pymongo.MongoClient('mongodb://localhost:27017')
MongoUrl == "mongodb://localhost:27017"

\* The callers that may be inside __get_data at the same time
MaxCallers == 2
Callers == 1..MaxCallers

\* a caller that is not inside a request
Waiting == [at |-> "idle", key |-> 0, resp |-> Nothing]

\* ValueError('No value specified for environment variable: {}'.format(key))
Missing(key) == [type |-> "error", kind |-> "ValueError", variable |-> key]

\* (a lookup that hands back None for a variable that is not set)
get_environment_variable_unchecked(env, key) == Return(key)

\* Weather.__get_environment_variable: the value, which the name stands for
get_environment_variable(env, key) ==
    IF key \notin env THEN Missing(key) ELSE Return(key)

\* Weather.__init__: the three variables are read in this order, then the
\* client is made; the first exception ends the construction.
Weather_init(env) ==
    LET secret_key == get_environment_variable(env, "DARKSKY_KEY")
        latitude == get_environment_variable(env, "LATITUDE")
        longitude == get_environment_variable(env, "LONGITUDE")
    IN IF secret_key.type = "error" THEN [raised |-> secret_key, client |-> Nothing]
       ELSE IF latitude.type = "error" THEN [raised |-> latitude, client |-> Nothing]
       ELSE IF longitude.type = "error" THEN [raised |-> longitude, client |-> Nothing]
       ELSE [raised |-> Return(None), client |-> Some(MongoUrl)]

\* The Weather object is constructed, nothing is stored, nothing was asked yet
Fresh ==
    /\ ticks = 0
    /\ db_current = << >>
    /\ db_forecasts = << >>
    /\ db_time_machine = << >>
    /\ fetches = NoFetches
    /\ fetched_at = Nothing
    /\ last = Idle
    /\ environ = Variables
    /\ client = Some(MongoUrl)
    /\ inflight = [c \in Callers |-> Waiting]
    /\ burner = NoBurner

Init ==
    /\ clock = StartClock
    /\ Fresh

\* A request that would make an HTTP call beyond `cap` is left out of the run.
Within(out, cap) == out.call = Nothing \/ TotalHttp < cap

\* One request ran to its end: the collections, the history and `last` after it.
Request(entry, input, out, result) ==
    LET k == <<out.regime, out.key>>
        ok == out.call # Nothing /\ out.call[1].status = StatusOK
    IN /\ db_current' = out.cur
       /\ db_forecasts' = out.fc
       /\ db_time_machine' = out.tm
       /\ fetches' = IF out.call = Nothing THEN fetches
                     ELSE [x \in DOMAIN fetches \cup {k} |->
                             IF x = k
                             THEN [n |-> Count(k).n + Len(out.call),
                                   ok |-> Count(k).ok + (IF ok THEN 1 ELSE 0)]
                             ELSE fetches[x]]
       /\ fetched_at' = IF ok /\ out.regime = "CURRENT" THEN Some(clock) ELSE fetched_at
       /\ last' = [entry |-> entry, input |-> input, regime |-> out.regime,
                   key |-> out.key, age |-> out.age,
                   since |-> IF out.regime = "CURRENT" /\ fetched_at # Nothing
                             THEN Some(clock - fetched_at[1]) ELSE Nothing,
                   call |-> out.call, result |-> result]
       /\ UNCHANGED <<clock, ticks>>
       /\ UNCHANGED setup

\* a request that fails before __get_data is entered
NoData(result) ==
    Outcome("none", 0, Nothing, Nothing, db_current, db_forecasts, db_time_machine, result)

\* the property Weather.current
Current(api, cap) ==
    LET out == get_data(None, api)
    IN /\ Within(out, cap)
       /\ Request("current", None, out,
                  IF out.result.type = "error" THEN out.result
                  ELSE Return(out.result.value.currently))

\* Weather.hourly(day)
Hourly(day, api, cap) ==
    LET d == hourly_day(day)
        out == IF d.type = "error" THEN NoData(d) ELSE get_data(d.value, api)
    IN /\ Within(out, cap)
       /\ Request("hourly", day, out,
                  IF out.result.type = "error" THEN out.result
                  ELSE aggregate(out.result.value.hourly.data,
                                 out.result.value.timezone))

\* Weather.__get_data(time), called on its own
GetData(time, api, cap) ==
    LET out == get_data(time, api)
    IN /\ Within(out, cap)
       /\ Request("get_data", time, out, out.result)

\* Time passes between two requests
Tick(d) ==
    /\ ticks < MaxTicks
    /\ clock' = clock + d
    /\ ticks' = ticks + 1
    /\ last' = Idle
    /\ UNCHANGED <<db_current, db_forecasts, db_time_machine, fetches, fetched_at>>
    /\ UNCHANGED setup

\* The arguments a caller may pass as time or day: None, a date, an aware
\* datetime in the local or in another zone, a naive datetime, another type
Noon == 12 * Hour

WallTimes == {<<Noon, get_localzone>>, <<2 * Hour, 9 * Hour>>}

LocalTimes == {DateTime(d, Noon, get_localzone, TRUE) : d \in Dates}

TimeArgs ==
    {None, Other}
    \cup {Date(d) : d \in Dates}
    \cup {DateTime(d, w[1], w[2], TRUE) : d \in Dates, w \in WallTimes}
    \cup {DateTime(d, Noon, 0, FALSE) : d \in Dates}

\* Freshness within a day: current and today's hourly forecast, the clock moving
\* by steps around both times-to-live, the API answering any document or refusing.
Next ==
    \/ \E d \in TickSteps : Tick(d)
    \/ \E api \in Answers(InSync) : Current(api, MaxHttp)
    \/ \E api \in Answers(InSync) : Hourly(None, api, MaxHttp)

Spec == Init /\ [][Next]_vars

\* The three regimes over the days: current and hourly(day) for yesterday, today
\* and tomorrow, midnight passing, the API answering one of two documents or
\* refusing.
Replies ==
    {Answer(StatusOK, 1, 0), Answer(StatusOK, 2, 0), Answer(TooManyRequests, 1, 0)}

NextDays ==
    \/ Tick(Day)
    \/ \E api \in Replies : Current(api, MaxHttp)
    \/ \E day \in LocalTimes, api \in Replies : Hourly(day, api, MaxHttp)

SpecDays == Init /\ [][NextDays]_vars

\* Every kind of argument through every entry point, on an empty cache.
Plain == {Answer(StatusOK, 1, 0)}

NextArgs ==
    \/ Tick(Day)
    \/ \E api \in Plain : Current(api, MaxHttp)
    \/ \E day \in TimeArgs, api \in Plain : Hourly(day, api, MaxHttp)
    \/ \E time \in TimeArgs, api \in Plain : GetData(time, api, MaxHttp)

SpecArgs == Init /\ [][NextArgs]_vars

\* The aggregation of Weather.hourly on its own: every hourly list of up to
\* MaxHours entries, each entry with any of the fields, is aggregated once.
HourValues == {1, 2}

HourlyRecords == UNION {[keys -> HourValues] : keys \in SUBSET HourKeys}

HourlyLists == UNION {[1..n -> HourlyRecords] : n \in 0..MaxHours}

Aggregate(forecast_data) ==
    /\ last = Idle
    /\ last' = [Idle EXCEPT !.entry = "aggregate", !.input = forecast_data,
                            !.result = aggregate(forecast_data, ApiZone)]
    /\ UNCHANGED <<clock, ticks, db_current, db_forecasts, db_time_machine,
                   fetches, fetched_at>>
    /\ UNCHANGED setup

NextAggregate == \E forecast_data \in HourlyLists : Aggregate(forecast_data)

SpecAggregate == Init /\ [][NextAggregate]_vars

\* A caller that polls within one day: every PollPeriod it asks for the current
\* weather and for the hourly forecast of the next two days, and the API, its clock
\* in step with the local one, answers every call with a 200.  The run starts
\* at a whole second or a tenth after it and ends before 24 hours have passed.
PollPeriod == ttl(max_requests_per_day_current) - 1

Phases == {0, 1}

Polled == {DateTime(d, Noon, get_localzone, TRUE) : d \in {StartDay + 1, StartDay + 2}}

Willing == Answer(StatusOK, 1, 0)

\* no cap on the HTTP calls: the day bounds the run
NoCap == Day

\* every polled record is fresh: the caller has nothing left to ask at this time
AllServed ==
    /\ get_data(None, Willing).call = Nothing
    /\ \A day \in Polled : get_data(hourly_day(day).value, Willing).call = Nothing

Poll ==
    /\ AllServed
    /\ clock + PollPeriod - StartClock < Day
    /\ clock' = clock + PollPeriod
    /\ ticks' = ticks + 1
    /\ last' = Idle
    /\ UNCHANGED <<db_current, db_forecasts, db_time_machine, fetches, fetched_at>>
    /\ UNCHANGED setup

InitBudget ==
    /\ clock \in {StartClock + p : p \in Phases}
    /\ Fresh

NextBudget ==
    \/ Poll
    \/ Current(Willing, NoCap)
    \/ \E day \in Polled : Hourly(day, Willing, NoCap)

SpecBudget == InitBudget /\ [][NextBudget]_vars

\* Two callers inside the HISTORICAL branch of __get_data at the same time: the
\* lookup, the HTTP call and the insert of one caller are separate steps, and the
\* steps of the other caller may fall between them.
Past == {Date(d) : d \in {StartDay - 2, StartDay - 1}}

\* the history after HTTP calls for key k
Called(k, call) ==
    [x \in DOMAIN fetches \cup {k} |->
        IF x = k
        THEN [n |-> Count(k).n + Len(call),
              ok |-> Count(k).ok + (IF call[1].status = StatusOK THEN 1 ELSE 0)]
        ELSE fetches[x]]

\* what `last` says of a step of the HISTORICAL branch
Step(time, key, age, call, result) ==
    [entry |-> "get_data", input |-> time, regime |-> "HISTORICAL", key |-> key,
     age |-> age, since |-> Nothing, call |-> call, result |-> result]

\* l.163-167: find_one on the date key; the record found is returned
TimeMachineLookup(c, time) ==
    LET t == check_time(time).value
        key == strftime(t)
        dated == {i \in 1..Len(db_time_machine) : db_time_machine[i].date = key}
        found == find_one(db_time_machine, dated)
    IN /\ inflight[c].at = "idle"
       /\ branch(t) = "HISTORICAL"
       /\ IF found # None
          THEN /\ last' = Step(time, key, AgeOf(found), Nothing, Return(found))
               /\ UNCHANGED inflight
          ELSE /\ last' = Idle
               /\ inflight' = [inflight EXCEPT ![c] =
                                  [at |-> "fetch", key |-> key, resp |-> Nothing]]
       /\ UNCHANGED <<clock, ticks, db_current, db_forecasts, db_time_machine,
                      fetches, fetched_at, environ, client, burner>>

\* l.170: the HTTP call; an error leaves the request
TimeMachineFetch(c, api) ==
    LET key == inflight[c].key
        resp == darksky(api)
    IN /\ inflight[c].at = "fetch"
       /\ TotalHttp < MaxHttp
       /\ fetches' = Called(<<"HISTORICAL", key>>, requests_get(api))
       /\ IF resp.type = "error"
          THEN /\ last' = Step(Date(key), key, Nothing, requests_get(api), resp)
               /\ inflight' = [inflight EXCEPT ![c] = Waiting]
          ELSE /\ last' = Idle
               /\ inflight' = [inflight EXCEPT ![c] =
                                  [at |-> "write", key |-> key, resp |-> Some(resp.value)]]
       /\ UNCHANGED <<clock, ticks, db_current, db_forecasts, db_time_machine,
                      fetched_at, environ, client, burner>>

\* l.173-179: the time and the date key are set, the document is inserted
TimeMachineWrite(c) ==
    LET key == inflight[c].key
        resp_dict == Set(inflight[c].resp[1], [time |-> clock, date |-> key])
    IN /\ inflight[c].at = "write"
       /\ db_time_machine' = insert_one(db_time_machine, resp_dict)
       /\ last' = Step(Date(key), key, Nothing, Nothing, Return(resp_dict))
       /\ inflight' = [inflight EXCEPT ![c] = Waiting]
       /\ UNCHANGED <<clock, ticks, db_current, db_forecasts, fetches, fetched_at,
                      environ, client, burner>>

NextRace ==
    \/ Tick(1)
    \/ \E c \in Callers, time \in Past : TimeMachineLookup(c, time)
    \/ \E c \in Callers, api \in Answers(InSync) : TimeMachineFetch(c, api)
    \/ \E c \in Callers : TimeMachineWrite(c)

SpecRace == Init /\ [][NextRace]_vars

\* Failures: the API answers, refuses, or the connection fails, while records
\* expire; current, today's hourly forecast and yesterday's hourly record.
Expiries == {ttl(max_requests_per_day_current), ttl(max_requests_per_day_forecast)}

Failing ==
    {Answer(StatusOK, 1, 0), Answer(TooManyRequests, 1, 0), Answer(NoResponse, 1, 0)}

Yesterday == DateTime(StartDay - 1, Noon, get_localzone, TRUE)

NextFailures ==
    \/ \E d \in Expiries : Tick(d)
    \/ \E api \in Failing : Current(api, MaxHttp)
    \/ \E day \in {None, Yesterday}, api \in Failing : Hourly(day, api, MaxHttp)

SpecFailures == Init /\ [][NextFailures]_vars

\* Construction: the process starts with any of the three variables set, Weather()
\* is called, and whoever runs it may set a missing variable and try again.  A
\* request needs the constructed object.
Construct ==
    /\ client = Nothing
    /\ client' = Weather_init(environ).client
    /\ last' = [Idle EXCEPT !.entry = "init", !.result = Weather_init(environ).raised]
    /\ UNCHANGED <<clock, ticks, db_current, db_forecasts, db_time_machine,
                   fetches, fetched_at, environ, inflight, burner>>

Setenv(key) ==
    /\ client = Nothing
    /\ key \notin environ
    /\ environ' = environ \cup {key}
    /\ last' = Idle
    /\ UNCHANGED <<clock, ticks, db_current, db_forecasts, db_time_machine,
                   fetches, fetched_at, client, inflight, burner>>

Constructed == client # Nothing

InitConfig ==
    /\ clock = StartClock
    /\ ticks = 0
    /\ db_current = << >>
    /\ db_forecasts = << >>
    /\ db_time_machine = << >>
    /\ fetches = NoFetches
    /\ fetched_at = Nothing
    /\ last = Idle
    /\ environ \in SUBSET Variables
    /\ client = Nothing
    /\ inflight = [c \in Callers |-> Waiting]
    /\ burner = NoBurner

NextConfig ==
    \/ Construct
    \/ \E key \in Variables : Setenv(key)
    \/ Constructed /\ Tick(Day)
    \/ Constructed /\ \E api \in Answers(InSync) : Current(api, MaxHttp)
    \/ Constructed /\ \E day \in LocalTimes, api \in Plain : Hourly(day, api, MaxHttp)

SpecConfig == InitConfig /\ [][NextConfig]_vars

\* The API's clock behind the local one: the currently.time of an answer is the
\* local time of the call or 345.6 s before it.
NextLag ==
    \/ \E d \in TickSteps : Tick(d)
    \/ \E api \in Answers(Lags) : Current(api, MaxHttp)

SpecLag == Init /\ [][NextLag]_vars

\* A day rolling over: the hourly forecast of the day the run starts on is asked
\* for, as hourly() and as hourly(that day), before and after midnights pass.
StartNoon == DateTime(StartDay, Noon, get_localzone, TRUE)

NextRollover ==
    \/ Tick(Day)
    \/ \E day \in {None, StartNoon}, api \in Replies : Hourly(day, api, MaxHttp + 1)

SpecRollover == Init /\ [][NextRollover]_vars

\* The burner: a Burner is constructed with a display, a position name and a
\* stepper, values are assigned to it, and the process exits.
weather == <<clock, ticks, db_current, db_forecasts, db_time_machine,
             fetches, fetched_at, last, environ, client, inflight>>

MaxAssign == 3     \* assignments to Burner.value in one run

\* the values assigned: None, -0.1, 0.0, 0.5, 0.9375, 1.0, 1.1
Setpoints == {Nothing} \cup {Some(x) : x \in {0 - 160, 0, 800, 1500, 1600, 1760}}

\* the step argument: the default, and a name __init__ does not know
StepNames == {"single", "triple"}

\* Burner.__init__: the value is None, cleanup is registered, the step name is
\* checked, the burner is ignited
BurnerInit(step) ==
    /\ burner.state = "none"
    /\ burner' =
          IF step # "single"
          THEN [NoBurner EXCEPT !.state = "failed", !.registered = TRUE,
                                !.last.op = "init", !.last.arg = Nothing,
                                !.last.raised = Some("ValueError")]
          ELSE [NoBurner EXCEPT !.state = "ready", !.registered = TRUE,
                                !.value = ignite.value,
                                !.last = [Operated("init", Some(One), ignite) EXCEPT
                                             !.ignited = TRUE]]
    /\ UNCHANGED weather

\* burner.value = value
Assign(value) ==
    LET done == set_value(burner.value, value)
    IN /\ burner.state = "ready"
       /\ burner.assigns < MaxAssign
       /\ burner' = [burner EXCEPT
                        !.value = done.value,
                        !.assigns = @ + 1,
                        !.off = IF done.raised # Nothing THEN @
                                ELSE (value = Nothing \/ value[1] > One),
                        !.last = Operated("assign", value, done)]
       /\ UNCHANGED weather

\* The process exits: atexit runs Burner.cleanup, which assigns None
AtExit ==
    LET done == set_value(burner.value, Nothing)
    IN /\ burner.registered
       /\ burner.state \in {"ready", "failed"}
       /\ burner' = [burner EXCEPT
                        !.state = "exited",
                        !.value = done.value,
                        !.off = IF done.raised # Nothing THEN @ ELSE TRUE,
                        !.last = Operated("cleanup", Nothing, done)]
       /\ UNCHANGED weather

NextBurner ==
    \/ \E step \in StepNames : BurnerInit(step)
    \/ \E value \in Setpoints : Assign(value)
    \/ AtExit

SpecBurner == Init /\ [][NextBurner]_vars

----------------------------------------------------------------------------
(* The claims *)

Today == (clock + get_localzone) \div Day

Served == last.entry # "idle"

\* the argument the request just served handed to __get_data, if it got that far
Argument ==
    CASE last.entry = "current" -> Some(None)
      [] last.entry = "get_data" -> Some(last.input)
      [] last.entry = "hourly" /\ last.input.type = "None" -> Some(Date(Today))
      [] last.entry = "hourly" /\ last.input.type = "datetime" -> Some(Date(last.input.day))
      [] OTHER -> Nothing

\* an argument that passes the input checks of __get_data
Accepted(time) ==
    \/ time.type \in {"None", "date"}
    \/ time.type = "datetime" /\ time.aware

Fetched == last.call # Nothing

FetchedOK == Fetched /\ last.call[1].status = StatusOK

\* C1: every accepted request takes exactly one branch: CURRENT when it has no
\* instant; FORECAST when the calendar day its instant carries is today or later
\* (today itself included); HISTORICAL when that day is before today.  The
\* calendar day is the one the argument carries, time.date().
C1_Classification ==
    \A t \in {Argument[i] : i \in 1..Len(Argument)} :
        Accepted(t) =>
            /\ last.regime \in {"CURRENT", "FORECAST", "HISTORICAL"}
            /\ last.regime = "CURRENT" <=> t.type = "None"
            /\ last.regime = "FORECAST" <=> (t.type # "None" /\ t.day >= Today)
            /\ last.regime = "HISTORICAL" <=> (t.type # "None" /\ t.day < Today)

\* C1's case: an aware datetime on today's date, after a midnight has passed,
\* took the FORECAST branch
C1_Witness ==
    /\ last.entry = "get_data"
    /\ last.input.type = "datetime"
    /\ last.input.day = Today
    /\ Today > StartDay
    /\ last.regime = "FORECAST"

\* C6: through current and hourly(day), a datetime without timezone information
\* fails with the validation error before any lookup or fetch.
C6_NaiveRejected ==
    (/\ last.entry \in {"current", "hourly"}
     /\ last.input.type = "datetime"
     /\ ~last.input.aware)
    => /\ last.result = Raise("ValueError", 0)
       /\ last.regime = "none"
       /\ ~Fetched

\* the documents a date-keyed collection holds for a date
Dated(coll, key) == {i \in 1..Len(coll) : coll[i].date = key}

\* the dates a collection or the history knows
KnownDates(coll, regime) ==
    {coll[i].date : i \in 1..Len(coll)} \cup {k[2] : k \in {x \in DOMAIN fetches : x[1] = regime}}

\* C2 (as amended): for every past date the historical partition holds as many
\* records as HISTORICAL fetches for it were answered 200, and that is at most
\* one; a request that finds the record makes no HTTP call and is served the
\* stored record.
C2_HistoricalOnce ==
    /\ \A d \in KnownDates(db_time_machine, "HISTORICAL") :
          /\ Cardinality(Dated(db_time_machine, d)) = Count(<<"HISTORICAL", d>>).ok
          /\ Count(<<"HISTORICAL", d>>).ok <= 1
    /\ (last.regime = "HISTORICAL" /\ last.age # Nothing) =>
          /\ ~Fetched
          /\ \E i \in Dated(db_time_machine, last.key) :
                last.result = IF last.entry = "hourly"
                              THEN aggregate(db_time_machine[i].hourly.data,
                                             db_time_machine[i].timezone)
                              ELSE Return(db_time_machine[i])

\* C2's case: a past date is asked for again after a refused and an answered
\* fetch, and is served from the store
C2_Witness ==
    /\ last.regime = "HISTORICAL"
    /\ last.age # Nothing
    /\ ~Fetched
    /\ Count(<<"HISTORICAL", last.key>>) = [n |-> 2, ok |-> 1]

\* C2 as stated: once a request for a past date has succeeded, exactly one
\* record is stored for it and exactly one external fetch was made for it.
C2_ExactlyOneFetch ==
    \A d \in KnownDates(db_time_machine, "HISTORICAL") :
        Count(<<"HISTORICAL", d>>).ok >= 1 =>
            /\ Cardinality(Dated(db_time_machine, d)) = 1
            /\ Count(<<"HISTORICAL", d>>).n = 1

\* C5: in every regime, a request whose HTTP call is answered with a status other
\* than 200 raises the error carrying that status and leaves the three
\* collections as they were; the collections change only in a request whose
\* call was answered 200.
C5_FailedFetch ==
    [][ /\ (last'.call # Nothing /\ last'.call[1].status # StatusOK) =>
              /\ UNCHANGED stores
              /\ last'.result = Raise("RuntimeError", last'.call[1].status)
        /\ (stores' # stores) =>
              (last'.call # Nothing /\ last'.call[1].status = StatusOK)
      ]_vars

\* C5's case: a refused fetch in the HISTORICAL branch while a forecast is stored
C5_Witness ==
    /\ Fetched
    /\ last.call[1].status = TooManyRequests
    /\ last.regime = "HISTORICAL"
    /\ last.result = Raise("RuntimeError", TooManyRequests)
    /\ db_forecasts # << >>

\* the time-to-live of the branch the request just served took
TtlOf(regime) ==
    IF regime = "CURRENT" THEN ttl(max_requests_per_day_current)
    ELSE ttl(max_requests_per_day_forecast)

\* C3: a current() call made less than ttl after the fetch that produced the
\* stored record makes no HTTP call, and one made more than ttl after it makes
\* exactly one.
C3_CurrentTTL ==
    (last.entry = "current" /\ last.since # Nothing) =>
        /\ last.since[1] < ttl(max_requests_per_day_current) => ~Fetched
        /\ last.since[1] > ttl(max_requests_per_day_current) => Len(last.call) = 1

\* C4: after a FORECAST write for a date the forecast partition holds exactly one
\* record for that date, and it is exactly the response just fetched plus the
\* fetch time and the date key.
C4_ForecastSupersedes ==
    /\ \A d \in KnownDates(db_forecasts, "FORECAST") :
          Cardinality(Dated(db_forecasts, d)) <= 1
    /\ (last.regime = "FORECAST" /\ FetchedOK) =>
          \E i \in Dated(db_forecasts, last.key) :
              db_forecasts[i] = Set(Body(last.call[1]), [time |-> clock, date |-> last.key])

C7_AggregationComplete ==
    last.entry = "aggregate" =>
        LET data == last.input
            hours == 1..Len(data)
            table == last.result.value
        IN /\ last.result.type = "ok"
           /\ DOMAIN table = UNION {DOMAIN data[i] : i \in hours}
           /\ \A key \in DOMAIN table :
                 /\ DOMAIN table[key] = hours
                 /\ \A i \in hours :
                       IF key \notin DOMAIN data[i] THEN table[key][i] = Nothing
                       ELSE IF key = "time"
                       THEN table[key][i] = Some(fromtimestamp(data[i][key], ApiZone))
                       ELSE table[key][i] = Some(data[i][key])

\* C8: the HTTP calls current() makes within 24 hours never exceed
\* max_requests_per_day (250).
C8_CurrentBudget ==
    clock - StartClock < Day => HttpIn("CURRENT") <= max_requests_per_day_current

\* C9: the HTTP calls made in the FORECAST branch within 24 hours, all dates
\* together, never exceed its max_requests_per_day (100).
C9_ForecastBudget ==
    clock - StartClock < Day => HttpIn("FORECAST") <= max_requests_per_day_forecast

\* C11: the current partition never holds more than one record, however many
\* current() calls were made and however many of them fetched.
C11_SingleSlot == Len(db_current) <= 1

\* C11's case: a second fetch of the current weather has just been written
C11_Witness ==
    /\ last.entry = "current"
    /\ FetchedOK
    /\ Count(<<"CURRENT", 0>>).ok = 2
    /\ Len(db_current) = 1

\* C12: after a CURRENT write the current partition holds the response just
\* fetched plus its timestamp and nothing else: no top-level field that only an
\* earlier response had is still stored, to be returned by a later hit.
C12_CurrentReplaced ==
    (last.regime = "CURRENT" /\ FetchedOK) =>
        LET resp == Body(last.call[1])
        IN db_current = << Set(resp, [time |-> resp.currently.time * Second]) >>

\* C13: a record of the historical partition is never changed or removed by any
\* later step, and a request for a date that has a record is served from the
\* store without an HTTP call, whatever the record's age: hourly(day) returns
\* what the aggregation makes of the stored record.
C13_WriteOnce ==
    [][ /\ \A i \in 1..Len(db_time_machine) :
              /\ i <= Len(db_time_machine')
              /\ db_time_machine'[i] = db_time_machine[i]
        /\ (last'.regime = "HISTORICAL" /\ last'.age # Nothing) =>
              /\ last'.call = Nothing
              /\ UNCHANGED db_time_machine
              /\ \E i \in Dated(db_time_machine, last'.key) :
                    last'.result = aggregate(db_time_machine[i].hourly.data,
                                             db_time_machine[i].timezone)
      ]_vars

\* C13's case: a past date is served from a record fetched two days or more ago
C13_Witness ==
    /\ last.regime = "HISTORICAL"
    /\ last.age # Nothing
    /\ last.age[1] >= 2 * Day
    /\ ~Fetched
    /\ last.result.type = "ok"

\* C14: even when requests for the same missing past date interleave, the
\* historical partition never holds two records for one date.
C14_NoDuplicates ==
    \A d \in KnownDates(db_time_machine, "HISTORICAL") :
        Cardinality(Dated(db_time_machine, d)) <= 1

\* the calendar day of an aware datetime's instant in the process's zone
LocalDay(dt) == (Instant(dt) + get_localzone) \div Day

\* C15: a timezone-aware datetime is classified by the calendar day its instant
\* falls on in the local zone, and that day is its date key: the same instant
\* written in two zones gets the same regime and the same key.
C15_LocalDay ==
    (/\ last.entry \in {"hourly", "get_data"}
     /\ last.input.type = "datetime"
     /\ last.input.aware)
    => /\ last.key = LocalDay(last.input)
       /\ last.regime = IF LocalDay(last.input) >= Today THEN "FORECAST" ELSE "HISTORICAL"

\* what __darksky raises when the call is not answered 200
Failure(api) ==
    IF api.status = NoResponse THEN Raise("ConnectionError", NoResponse)
    ELSE Raise("RuntimeError", api.status)

\* C16: a request, current or hourly, makes at most one HTTP call; when that
\* call fails, in transport or with a status other than 200, the request ends
\* with the error and no second call is made.
C16_NoRetry ==
    [][ /\ Len(last'.call) <= 1
        /\ TotalHttp' = TotalHttp + Len(last'.call)
        /\ (last'.call # Nothing /\ last'.call[1].status # StatusOK) =>
              last'.result = Failure(last'.call[1])
      ]_vars

\* C16's case: the connection failed on an hourly request for a past date that
\* had already been refused once
C16_Witness ==
    /\ last.entry = "hourly"
    /\ last.regime = "HISTORICAL"
    /\ last.call = << Answer(NoResponse, 1, 0) >>
    /\ last.result = Raise("ConnectionError", NoResponse)
    /\ Count(<<"HISTORICAL", last.key>>) = [n |-> 2, ok |-> 0]

\* C17: when the stored CURRENT or FORECAST record is stale and the refreshing
\* call fails, the request ends with the error, not with the stale record, and
\* the three collections are left as they were.
C17_NoStaleFallback ==
    [][ (/\ last'.regime \in {"CURRENT", "FORECAST"}
         /\ last'.age # Nothing
         /\ last'.call # Nothing
         /\ last'.call[1].status # StatusOK)
        => /\ last'.result = Failure(last'.call[1])
           /\ UNCHANGED stores
      ]_vars

\* C17's case: the current record has expired and the refreshing call is refused
C17_Witness ==
    /\ last.entry = "current"
    /\ last.age # Nothing
    /\ last.age[1] >= ttl(max_requests_per_day_current)
    /\ Fetched
    /\ last.call[1].status = TooManyRequests
    /\ last.result.type = "error"
    /\ db_current # << >>

\* the collection of a regime
Partition(regime) ==
    CASE regime = "CURRENT" -> db_current
      [] regime = "FORECAST" -> db_forecasts
      [] OTHER -> db_time_machine

\* the records of a regime's collection stored under a key
Slot(regime, key) ==
    IF regime = "CURRENT" THEN 1..Len(db_current) ELSE Dated(Partition(regime), key)

\* C18: a request whose lookup finds a fresh CURRENT or FORECAST record, or any
\* HISTORICAL record, makes no HTTP call, leaves the three collections as they
\* were and returns the stored payload: its currently block for current(), the
\* table of its hourly data for hourly(day).
C18_HitNoSideEffects ==
    [][ (/\ last'.age # Nothing
         /\ \/ last'.regime = "HISTORICAL"
            \/ /\ last'.regime \in {"CURRENT", "FORECAST"}
               /\ last'.age[1] < TtlOf(last'.regime))
        => /\ last'.call = Nothing
           /\ UNCHANGED stores
           /\ UNCHANGED fetches
           /\ \E i \in Slot(last'.regime, last'.key) :
                 LET doc == Partition(last'.regime)[i]
                 IN last'.result = IF last'.entry = "current"
                                   THEN Return(doc.currently)
                                   ELSE aggregate(doc.hourly.data, doc.timezone)
      ]_vars

\* C18's case: today's forecast, fetched 345.6 s ago, is served from the store
C18_Witness ==
    /\ last.entry = "hourly"
    /\ last.regime = "FORECAST"
    /\ last.age = Some(ttl(max_requests_per_day_current))
    /\ ~Fetched
    /\ last.result.type = "ok"

\* a write under `key` left the records of every other date where and as they were
KeptOthers(before, after, key) ==
    /\ \A i \in 1..Len(before) :
          before[i].date # key => (i <= Len(after) /\ after[i] = before[i])
    /\ \A i \in 1..Len(after) :
          after[i].date # key => (i <= Len(before) /\ before[i] = after[i])

\* C19: a request changes at most the collection of its own regime, and in a
\* date-keyed collection it changes, adds or removes no record of another date.
C19_IndependentWrites ==
    [][ /\ last'.regime # "CURRENT" => UNCHANGED db_current
        /\ last'.regime # "FORECAST" => UNCHANGED db_forecasts
        /\ last'.regime # "HISTORICAL" => UNCHANGED db_time_machine
        /\ last'.regime = "FORECAST" =>
              KeptOthers(db_forecasts, db_forecasts', last'.key)
        /\ last'.regime = "HISTORICAL" =>
              KeptOthers(db_time_machine, db_time_machine', last'.key)
      ]_vars

\* C19's case: a forecast is written for one date while another date's forecast
\* is stored
C19_Witness ==
    /\ last.regime = "FORECAST"
    /\ FetchedOK
    /\ Len(db_forecasts) = 2
    /\ \E i \in 1..Len(db_forecasts) : db_forecasts[i].date # last.key

\* the variables in the order __init__ reads them
ReadOrder == << "DARKSKY_KEY", "LATITUDE", "LONGITUDE" >>

\* C20: while one of the three variables is missing, constructing Weather ends
\* with the error that names the first missing variable, no client is made, and
\* no request has been served, no HTTP call made and nothing stored.
C20_FailsFast ==
    environ # Variables =>
        /\ client = Nothing
        /\ last.entry \in {"idle", "init"}
        /\ TotalHttp = 0
        /\ stores = << << >>, << >>, << >> >>
        /\ last.entry = "init" =>
              \E i \in 1..Len(ReadOrder) :
                  /\ ReadOrder[i] \notin environ
                  /\ \A j \in 1..(i - 1) : ReadOrder[j] \in environ
                  /\ last.result = Missing(ReadOrder[i])

\* C20's case: the latitude alone is missing and the construction has failed
C20_Witness ==
    /\ last.entry = "init"
    /\ environ = {"DARKSKY_KEY", "LONGITUDE"}
    /\ last.result = Missing("LATITUDE")
    /\ client = Nothing

\* the steps caller c takes by itself: TimeMachineFetch is the API's answer
\* coming back, everything else of the request is the caller's own code
Proceeds(c) ==
    \/ TimeMachineWrite(c)
    \/ \E time \in Past : TimeMachineLookup(c, time)

\* C21: every request ends whether or not the API ever answers: a caller whose
\* HTTP call is out is never left with the API's answer as its only way on,
\* a step of its own (the timeout) ends the wait.
C21_Terminates ==
    \A c \in Callers : inflight[c].at = "fetch" => ENABLED Proceeds(c)

\* C22: for every hourly list, the empty one and lists whose records carry no
\* time field included, hourly() returns a table, and the table has a time column.
C22_TimeColumn ==
    last.entry = "aggregate" =>
        /\ last.result.type = "ok"
        /\ "time" \in DOMAIN last.result.value

\* C23: a current() call made with no time elapsed since a successful fetch is
\* served from the store, whatever currently.time the fetched response carried.
C23_AgeFromLocalClock ==
    (last.entry = "current" /\ last.since = Some(0)) => ~Fetched

\* the dates that have a forecast record and are past days by now
RolledOver == {d \in KnownDates(db_forecasts, "FORECAST") :
                  d < Today /\ Dated(db_forecasts, d) # {}}

\* C24 (as amended): a date that was cached under FORECAST while it was today is,
\* once it is a past day, looked up in the historical partition alone: a request
\* that finds no historical record makes exactly one HTTP call, whatever the
\* forecast partition holds, and when that call is answered 200 the answer is
\* stored and returned; a request that finds the historical record makes no
\* call and returns it.  At most one call for the date is ever answered 200.
C24_Rollover ==
    /\ \A d \in RolledOver :
          /\ Cardinality(Dated(db_time_machine, d)) = Count(<<"HISTORICAL", d>>).ok
          /\ Count(<<"HISTORICAL", d>>).ok <= 1
    /\ (last.regime = "HISTORICAL" /\ last.key \in RolledOver) =>
          /\ last.age = Nothing => Len(last.call) = 1
          /\ last.age # Nothing => ~Fetched
          /\ (last.age # Nothing \/ FetchedOK) =>
                \E i \in Dated(db_time_machine, last.key) :
                    last.result = aggregate(db_time_machine[i].hourly.data,
                                            db_time_machine[i].timezone)

\* C24's case: the day's forecast was cached while it was today; after midnight
\* a first request for it was refused, a second was answered, and a third is
\* served from the historical record
C24_Witness ==
    /\ last.regime = "HISTORICAL"
    /\ last.key \in RolledOver
    /\ last.age # Nothing
    /\ ~Fetched
    /\ Count(<<"FORECAST", last.key>>).ok = 1
    /\ Count(<<"HISTORICAL", last.key>>) = [n |-> 2, ok |-> 1]

\* C24 as stated: the first HISTORICAL request for the date makes the one fetch
\* there ever is for it: no later request for the date fetches again.
C24_OneFetchEver ==
    \A d \in RolledOver : Count(<<"HISTORICAL", d>>).n <= 1

\* an operation on the burner that ran to its end
Completed(ops) == burner.last.op \in ops /\ burner.last.raised = Nothing

\* C25: after a completed assignment to Burner.value the recorded value is None
\* or within [0.0, 1.0], and it is None when None or a value above 1.0 was
\* assigned.
C25_ValueRange ==
    Completed({"assign", "cleanup"}) =>
        /\ burner.value = Nothing \/ (0 <= burner.value[1] /\ burner.value[1] <= One)
        /\ (burner.last.arg = Nothing \/ burner.last.arg[1] > One) => burner.value = Nothing

\* what one motor step is worth on the set point scale
StepValue == (min_burner_increment * One) \div burner_sector_angle

\* the position the recorded value stands for: None is the off position
Recorded == IF burner.value = Nothing THEN Off ELSE burner.value[1]

\* C26: in every assignment the motor is stepped FORWARD when the set point is
\* above the current value and BACKWARD when it is below, and the recorded
\* value moves by exactly the steps taken.
C26_KnobTracksValue ==
    (Completed({"init", "assign", "cleanup"}) /\ burner.last.from # Nothing) =>
        LET from == burner.last.from[1]
            target == burner.last.target
            steps == burner.last.steps
        IN /\ target > from =>
                 /\ steps > 0 => burner.last.direction = "FORWARD"
                 /\ Recorded = from + steps * StepValue
           /\ target < from =>
                 /\ steps > 0 => burner.last.direction = "BACKWARD"
                 /\ Recorded = from - steps * StepValue

\* C27: a set point within [0.0, 1.0] assigned after the burner was turned off,
\* by None or by a value above 1.0, is reached through the ignition sequence.
C27_IgnitionFromOff ==
    (/\ Completed({"assign"})
     /\ burner.last.was_off
     /\ burner.last.arg # Nothing
     /\ 0 <= burner.last.arg[1]
     /\ burner.last.arg[1] <= One)
    => burner.last.ignited

\* C28: cleanup, run at exit from any state the burner is in, raises nothing and
\* leaves the value None.
C28_CleanupSafe ==
    burner.last.op = "cleanup" =>
        /\ burner.last.raised = Nothing
        /\ burner.value = Nothing

====
